---- MODULE Spec2Model ----
(***************************************************************************)
(* The document picker of the knowledge integration: the Tree Store        *)
(* (documents), the subscription toggle with optimistic update and         *)
(* rollback, the resync action, the view selection of renderContent, and   *)
(* the sync job whose status the picker reads.                             *)
(***************************************************************************)
EXTENDS Integers, Sequences, FiniteSets, TLC

\* ------------------------------------------------------------------ bounds

\* Toggles whose persistence request has not resolved yet.
MaxInflight == 2

\* Toggles issued in one run of the model.
MaxToggles == 3

\* Most nodes in a tree drawn as input of the folder walk.
MaxNodes == 3

\* -------------------------------------------------------------- constants

\* The ingestion cap of one sync. The source's cap is 1000 documents; the
\* model scales it to 3 so that a listing of four documents exceeds it.
DocumentCap == 3

\* ------------------------------------------------------------- data model

NoParent == "-"

Node(id, parentId, title, canHaveChildren) ==
    [id |-> id, parentId |-> parentId, title |-> title,
     canHaveChildren |-> canHaveChildren, isSubscribed |-> FALSE]

\* Titles and search strings are sequences of characters.
\* Remote listings, parents listed before their children.
\* F "Fb" > (G "g" > B "B"), A "a" : one more document than the cap.
ListingDeep ==
    << Node("F", NoParent, << "F", "b" >>, TRUE),
       Node("G", "F", << "g" >>, TRUE),
       Node("B", "G", << "B" >>, FALSE),
       Node("A", "F", << "a" >>, FALSE) >>

\* Two root-level files, "c" and "Bd".
ListingFlat ==
    << Node("C", NoParent, << "c" >>, FALSE),
       Node("D", NoParent, << "B", "d" >>, FALSE) >>

Listings == {ListingDeep, ListingFlat}

KnowledgeStatus == {"in_progress", "completed", "failed"}

NoJob == "none"

NoError == "none"

\* What the user types into the search box.
SearchInputs == {<< >>, << "B" >>}

VARIABLES
    connected,            \* integration.connection?.id is present
    listing,              \* what the remote account holds
    documents,            \* the Tree Store: useDocuments' documents state
    loading,              \* useDocuments' loading
    fetchDocumentsError,  \* useDocuments' error
    isTruncated,          \* Knowledge.isTruncated as the picker reads it
    syncStatus,           \* Knowledge.syncStatus
    syncError,            \* Knowledge.syncError as handed to the picker
    received,             \* documents the job has ingested so far
    inflight,             \* toggles awaiting their fetch() response
    isSubscribing,        \* the picker's isSubscribing state
    requests,             \* persistence requests issued so far
    toast,                \* the last step raised an error toast
    currentFolderId,      \* useDocumentNavigation's cursor, NoParent at root
    searchQuery           \* the picker's searchQuery state

vars == << connected, listing, documents, loading, fetchDocumentsError,
           isTruncated, syncStatus, syncError, received, inflight,
           isSubscribing, requests, toast, currentFolderId, searchQuery >>

syncVars == << isTruncated, syncStatus, syncError, received >>

fetchVars == << loading, fetchDocumentsError >>

toggleVars == << inflight, isSubscribing, requests >>

navVars == << currentFolderId, searchQuery >>

\* ---------------------------------------------------------------- helpers

Range(s) == {s[i] : i \in 1..Len(s)}

Ids(docs) == {docs[i].id : i \in 1..Len(docs)}

RemoveAt(s, i) == SubSeq(s, 1, i - 1) \o SubSeq(s, i + 1, Len(s))

isSyncing == syncStatus = "in_progress"

\* ------------------------------------------------- subscription propagator

RECURSIVE getDocumentsInFolder(_, _)
RECURSIVE CollectChildren(_, _)

\* The loop of getDocumentsInFolder leaving after its first child.
CollectChildrenFirstOnly(docs, children) ==
    IF children = << >>
    THEN << >>
    ELSE LET child == Head(children)
         IN  << child >>
             \o (IF child.canHaveChildren
                 THEN getDocumentsInFolder(docs, child.id)
                 ELSE << >>)

\* for (const child of children) { push(child); if (child.canHaveChildren)
\* push(...getDocumentsInFolder(child.id)) }
CollectChildren(docs, children) ==
    IF children = << >>
    THEN << >>
    ELSE LET child == Head(children)
         IN  << child >>
             \o (IF child.canHaveChildren
                 THEN getDocumentsInFolder(docs, child.id)
                 ELSE << >>)
             \o CollectChildren(docs, Tail(children))

\* getDocumentsInFolder without the recursive descent: direct children only.
getDocumentsInFolderShallow(docs, folderId) ==
    LET IsChild(doc) == doc.parentId = folderId
    IN  SelectSeq(docs, IsChild)

\* Recursively get all documents inside a folder.
getDocumentsInFolder(docs, folderId) ==
    LET IsChild(doc) == doc.parentId = folderId
    IN  CollectChildren(docs, SelectSeq(docs, IsChild))

IdsOf(docs) == [i \in 1..Len(docs) |-> docs[i].id]

\* const documentsToUpdate = document.canHaveChildren ? [id, ...descendants] : [id]
documentsToUpdate(docs, document) ==
    IF document.canHaveChildren
    THEN << document.id >> \o IdsOf(getDocumentsInFolder(docs, document.id))
    ELSE << document.id >>

\* newSubscriptionState that always subscribes.
newSubscriptionStateAlwaysOn(document) == TRUE

\* const newSubscriptionState = !document.isSubscribed
newSubscriptionState(document) == ~document.isSubscribed

\* documents.map(doc => includes(doc.id) ? {...doc, isSubscribed} : doc)
newDocuments(docs, ids, state) ==
    [i \in 1..Len(docs) |->
        IF docs[i].id \in Range(ids)
        THEN [docs[i] EXCEPT !.isSubscribed = state]
        ELSE docs[i]]

\* const currentDocuments = [...documents]
currentDocuments(docs) == docs

\* A failure branch that leaves the optimistic store in place.
rolledBackNothing(cur, req) == cur

\* setDocuments(currentDocuments) of the failure branches: the store after
\* the rollback of request req, given the store cur it replaces.
rolledBack(cur, req) == req.currentDocuments

\* --------------------------------------------------- navigation projector

\* String.prototype.toLowerCase over the characters the titles use.
lowerChar(c) ==
    CASE c = "A" -> "a"
      [] c = "B" -> "b"
      [] c = "F" -> "f"
      [] OTHER   -> c

toLowerCase(str) == [i \in 1..Len(str) |-> lowerChar(str[i])]

\* String.prototype.includes: sub occurs in str as a contiguous run.
includes(str, sub) ==
    \E k \in 0..(Len(str) - Len(sub)) :
        \A j \in 1..Len(sub) : str[k + j] = sub[j]

\* matchesSearch comparing the characters as they are.
matchesSearchCaseSensitive(doc) ==
    includes(doc.title, searchQuery)

\* Case-insensitive substring match of the search string on a title.
matchesSearch(doc) ==
    includes(toLowerCase(doc.title), toLowerCase(searchQuery))

\* The nodes the view lists: the matches over the whole tree while a search
\* string is set, the children of the cursor otherwise.
visibleDocuments ==
    LET IsMatch(doc) == matchesSearch(doc)
        IsChild(doc) == doc.parentId = currentFolderId
    IN  IF searchQuery # << >>
        THEN SelectSeq(documents, IsMatch)
        ELSE SelectSeq(documents, IsChild)

currentFolders ==
    LET IsFolder(doc) == doc.canHaveChildren
    IN  SelectSeq(visibleDocuments, IsFolder)

currentFiles ==
    LET IsFile(doc) == ~doc.canHaveChildren
    IN  SelectSeq(visibleDocuments, IsFile)

\* Walk parentId links from id to the root; the crumbs in root-first order.
RECURSIVE pathTo(_, _)
pathTo(docs, id) ==
    IF id = NoParent \/ id \notin Ids(docs)
    THEN << >>
    ELSE LET doc == CHOOSE d \in Range(docs) : d.id = id
         IN  Append(pathTo(docs, doc.parentId), [id |-> doc.id, title |-> doc.title])

\* The breadcrumb items, suppressed while a search string is set.
breadcrumbs ==
    IF searchQuery # << >> THEN << >> ELSE pathTo(documents, currentFolderId)

\* Breadcrumbs: the indexes its buttons pass to onNavigate; nothing is
\* rendered for an empty list.
breadcrumbIndexes(items) ==
    IF Len(items) = 0 THEN {} ELSE {-1} \cup (0..(Len(items) - 1))

\* ------------------------------------------------------------------- view

\* renderContent with the loading test missing its "&& !isSyncing".
renderContentLoadingFirst ==
    IF Len(documents) = 0
    THEN IF loading THEN "loading"
         ELSE IF isSyncing THEN "syncing"
         ELSE IF fetchDocumentsError THEN "fetchError"
         ELSE IF syncError # NoError THEN "syncError"
         ELSE "list"
    ELSE "list"

\* renderContent: which of its branches is rendered.
renderContent ==
    IF Len(documents) = 0
    THEN IF loading /\ ~isSyncing THEN "loading"
         ELSE IF isSyncing THEN "syncing"
         ELSE IF fetchDocumentsError THEN "fetchError"
         ELSE IF syncError # NoError THEN "syncError"
         ELSE "list"
    ELSE "list"

\* {!loading && !isSyncing && <Button onClick={reSync}>Resync</Button>}
resyncButtonShown == ~loading /\ ~isSyncing

\* {isTruncated && <div>*Sync was truncated to 1000 documents</div>}
truncationNoticeShown == isTruncated

\* The documents whose checkbox or row calls onSubscribe: those of the
\* DocumentList, which only the last branch of renderContent renders.
toggleTargets ==
    IF renderContent = "list"
    THEN Range(currentFolders) \cup Range(currentFiles)
    ELSE {}

\* The badge in the header: hidden unless syncing, then the number of
\* documents in the store, or "Syncing..." for none.
syncingBadge ==
    IF ~isSyncing THEN << "hidden", 0 >>
    ELSE IF Len(documents) # 0 THEN << "count", Len(documents) >>
    ELSE << "syncing", 0 >>

\* A control whose handler is reSync is on screen.
resyncOffered == resyncButtonShown \/ renderContent = "syncError"

\* ------------------------------------------------------------------- init

Init ==
    /\ connected \in BOOLEAN
    /\ listing \in Listings
    /\ documents = << >>
    /\ loading = FALSE
    /\ fetchDocumentsError = FALSE
    /\ isTruncated = FALSE
    /\ syncStatus = NoJob
    /\ syncError = NoError
    /\ received = 0
    /\ inflight = << >>
    /\ isSubscribing = FALSE
    /\ requests = 0
    /\ toast = FALSE
    /\ currentFolderId = NoParent
    /\ searchQuery = << >>

\* ---------------------------------------------------------------- actions

\* subscribeDocument that issues the request and leaves the optimistic apply
\* out.
subscribeDocumentRequestOnly(document) ==
    /\ document \in toggleTargets
    /\ Len(inflight) < MaxInflight
    /\ requests < MaxToggles
    /\ requests' = requests + 1
    /\ inflight' = Append(inflight,
           [documentIds |-> documentsToUpdate(documents, document),
            isSubscribed |-> newSubscriptionState(document),
            currentDocuments |-> currentDocuments(documents),
            issuedFrom |-> documents])
    /\ isSubscribing' = TRUE
    /\ toast' = FALSE
    /\ UNCHANGED << connected, listing, documents >>
    /\ UNCHANGED fetchVars
    /\ UNCHANGED navVars
    /\ UNCHANGED syncVars

\* subscribeDocument up to the point where fetch() has been issued.
subscribeDocument(document) ==
    /\ document \in toggleTargets
    /\ Len(inflight) < MaxInflight
    /\ requests < MaxToggles
    /\ requests' = requests + 1
    /\ LET ids   == documentsToUpdate(documents, document)
           state == newSubscriptionState(document)
       IN  /\ documents' = newDocuments(documents, ids, state)
           /\ inflight' = Append(inflight,
                  [documentIds |-> ids,
                   isSubscribed |-> state,
                   currentDocuments |-> currentDocuments(documents),
                   issuedFrom |-> documents])
    /\ isSubscribing' = TRUE
    /\ toast' = FALSE
    /\ UNCHANGED << connected, listing >>
    /\ UNCHANGED fetchVars
    /\ UNCHANGED navVars
    /\ UNCHANGED syncVars

\* handleStartSync({connectionId}): a fresh job for the connection.
handleStartSync ==
    /\ syncStatus' = "in_progress"
    /\ syncError' = NoError
    /\ isTruncated' = FALSE
    /\ received' = 0

\* A successful toggle that also restarts the sync job.
subscribeResponseOkRestartingSync(i) ==
    /\ i \in 1..Len(inflight)
    /\ inflight' = RemoveAt(inflight, i)
    /\ isSubscribing' = FALSE
    /\ toast' = FALSE
    /\ handleStartSync
    /\ UNCHANGED << connected, listing, documents, requests >>
    /\ UNCHANGED fetchVars
    /\ UNCHANGED navVars

\* The request resolves with response.ok: nothing but the finally block.
subscribeResponseOk(i) ==
    /\ i \in 1..Len(inflight)
    /\ inflight' = RemoveAt(inflight, i)
    /\ isSubscribing' = FALSE
    /\ toast' = FALSE
    /\ UNCHANGED << connected, listing, documents, requests >>
    /\ UNCHANGED fetchVars
    /\ UNCHANGED navVars
    /\ UNCHANGED syncVars

\* if (!response.ok) setDocuments(currentDocuments)
subscribeResponseNotOk(i) ==
    /\ i \in 1..Len(inflight)
    /\ documents' = rolledBack(documents, inflight[i])
    /\ inflight' = RemoveAt(inflight, i)
    /\ isSubscribing' = FALSE
    /\ toast' = FALSE
    /\ UNCHANGED << connected, listing, requests >>
    /\ UNCHANGED fetchVars
    /\ UNCHANGED navVars
    /\ UNCHANGED syncVars

\* A catch branch that sends the request again after rolling back.
subscribeFetchThrowsRetrying(i) ==
    /\ i \in 1..Len(inflight)
    /\ requests < MaxToggles
    /\ documents' = rolledBack(documents, inflight[i])
    /\ toast' = TRUE
    /\ inflight' = inflight
    /\ requests' = requests + 1
    /\ isSubscribing' = FALSE
    /\ UNCHANGED << connected, listing >>
    /\ UNCHANGED fetchVars
    /\ UNCHANGED navVars
    /\ UNCHANGED syncVars

\* catch (error) { setDocuments(currentDocuments); toast.error(...) }
subscribeFetchThrows(i) ==
    /\ i \in 1..Len(inflight)
    /\ documents' = rolledBack(documents, inflight[i])
    /\ toast' = TRUE
    /\ inflight' = RemoveAt(inflight, i)
    /\ isSubscribing' = FALSE
    /\ UNCHANGED << connected, listing, requests >>
    /\ UNCHANGED fetchVars
    /\ UNCHANGED navVars
    /\ UNCHANGED syncVars

\* reSync without setDocuments([]).
reSyncKeepingDocuments ==
    /\ resyncOffered
    /\ documents' = documents
    /\ IF connected THEN handleStartSync ELSE UNCHANGED syncVars
    /\ toast' = FALSE
    /\ UNCHANGED << connected, listing >>
    /\ UNCHANGED fetchVars
    /\ UNCHANGED navVars
    /\ UNCHANGED toggleVars

\* reSync, from the Resync button or the sync error's retry.
reSync ==
    /\ resyncOffered
    /\ documents' = << >>
    /\ IF connected THEN handleStartSync ELSE UNCHANGED syncVars
    /\ UNCHANGED << connected, listing >>
    /\ UNCHANGED fetchVars
    /\ UNCHANGED navVars
    /\ toast' = FALSE
    /\ UNCHANGED toggleVars

\* listDocument with the cap treated as an ingestion error.
listDocumentFailingAtCap ==
    /\ isSyncing
    /\ received < Len(listing)
    /\ received < DocumentCap
    /\ received' = received + 1
    /\ IF received + 1 = DocumentCap /\ Len(listing) > DocumentCap
       THEN syncStatus' = "failed" /\ syncError' = "error"
       ELSE UNCHANGED << syncStatus, syncError >>
    /\ toast' = FALSE
    /\ UNCHANGED << connected, listing, documents, isTruncated >>
    /\ UNCHANGED fetchVars
    /\ UNCHANGED navVars
    /\ UNCHANGED toggleVars

\* The job ingests the next document of the listing; the listing is stopped
\* after DocumentCap documents and the job completes truncated.
listDocument ==
    /\ isSyncing
    /\ received < Len(listing)
    /\ received < DocumentCap
    /\ received' = received + 1
    /\ IF received + 1 = DocumentCap /\ Len(listing) > DocumentCap
       THEN syncStatus' = "completed" /\ isTruncated' = TRUE
       ELSE UNCHANGED << syncStatus, isTruncated >>
    /\ UNCHANGED << connected, listing, documents, syncError >>
    /\ UNCHANGED fetchVars
    /\ UNCHANGED navVars
    /\ toast' = FALSE
    /\ UNCHANGED toggleVars

\* The listing finished within the cap.
completeSync ==
    /\ isSyncing
    /\ received = Len(listing)
    /\ syncStatus' = "completed"
    /\ UNCHANGED << connected, listing, documents, isTruncated, syncError,
                    received >>
    /\ UNCHANGED fetchVars
    /\ UNCHANGED navVars
    /\ toast' = FALSE
    /\ UNCHANGED toggleVars

\* An unrecoverable error during ingestion.
failSync ==
    /\ isSyncing
    /\ syncStatus' = "failed"
    /\ syncError' = "error"
    /\ UNCHANGED << connected, listing, documents, isTruncated, received >>
    /\ UNCHANGED fetchVars
    /\ UNCHANGED navVars
    /\ toast' = FALSE
    /\ UNCHANGED toggleVars

\* The flag the store holds for id, FALSE for a node it does not hold.
flagOf(docs, id) ==
    \E i \in 1..Len(docs) : docs[i].id = id /\ docs[i].isSubscribed

\* The documents ingested so far, as they are fed to the store: a node the
\* store already holds keeps its flag, a new node arrives unsubscribed.
arrivedDocuments ==
    [i \in 1..received |->
        [listing[i] EXCEPT !.isSubscribed = flagOf(documents, listing[i].id)]]

\* useDocuments: a listing fetch starts (mount, poll while syncing, retry).
fetchDocuments ==
    /\ connected
    /\ ~loading
    /\ loading' = TRUE
    /\ fetchDocumentsError' = FALSE
    /\ UNCHANGED << connected, listing, documents >>
    /\ UNCHANGED navVars
    /\ UNCHANGED syncVars
    /\ toast' = FALSE
    /\ UNCHANGED toggleVars

\* useDocuments: the fetch returns and the store is replaced wholesale.
fetchDocumentsOk ==
    /\ loading
    /\ documents' = arrivedDocuments
    /\ loading' = FALSE
    /\ UNCHANGED << connected, listing, fetchDocumentsError >>
    /\ UNCHANGED navVars
    /\ UNCHANGED syncVars
    /\ toast' = FALSE
    /\ UNCHANGED toggleVars

\* useDocuments: the fetch fails; the store is left as it is.
fetchDocumentsFailed ==
    /\ loading
    /\ fetchDocumentsError' = TRUE
    /\ loading' = FALSE
    /\ UNCHANGED << connected, listing, documents >>
    /\ UNCHANGED navVars
    /\ UNCHANGED syncVars
    /\ toast' = FALSE
    /\ UNCHANGED toggleVars

\* onFolderClick: the cursor moves into a listed folder.
navigateToFolder(folder) ==
    /\ renderContent = "list"
    /\ folder \in Range(currentFolders)
    /\ currentFolderId' = folder.id
    /\ toast' = FALSE
    /\ UNCHANGED << connected, listing, documents, searchQuery >>
    /\ UNCHANGED fetchVars
    /\ UNCHANGED syncVars
    /\ UNCHANGED toggleVars

\* navigateToBreadcrumb reading the crumb before the one clicked.
navigateToBreadcrumbOffByOne(index) ==
    /\ renderContent = "list"
    /\ index \in breadcrumbIndexes(breadcrumbs)
    /\ currentFolderId' = IF index <= 0 THEN NoParent ELSE breadcrumbs[index].id
    /\ toast' = FALSE
    /\ UNCHANGED << connected, listing, documents, searchQuery >>
    /\ UNCHANGED fetchVars
    /\ UNCHANGED syncVars
    /\ UNCHANGED toggleVars

\* onNavigate(index): the cursor moves to the crumb at index, to the root
\* for index -1.
navigateToBreadcrumb(index) ==
    /\ renderContent = "list"
    /\ index \in breadcrumbIndexes(breadcrumbs)
    /\ currentFolderId' = IF index = -1 THEN NoParent ELSE breadcrumbs[index + 1].id
    /\ toast' = FALSE
    /\ UNCHANGED << connected, listing, documents, searchQuery >>
    /\ UNCHANGED fetchVars
    /\ UNCHANGED syncVars
    /\ UNCHANGED toggleVars

\* handleSearchChange: setSearchQuery(e.target.value)
handleSearchChange(value) ==
    /\ value # searchQuery
    /\ searchQuery' = value
    /\ toast' = FALSE
    /\ UNCHANGED << connected, listing, documents, currentFolderId >>
    /\ UNCHANGED fetchVars
    /\ UNCHANGED syncVars
    /\ UNCHANGED toggleVars

Next ==
    \/ \E document \in Range(documents) : subscribeDocument(document)
    \/ \E i \in 1..Len(inflight) : subscribeResponseOk(i)
    \/ \E i \in 1..Len(inflight) : subscribeResponseNotOk(i)
    \/ \E i \in 1..Len(inflight) : subscribeFetchThrows(i)
    \/ reSync
    \/ listDocument
    \/ completeSync
    \/ failSync
    \/ fetchDocuments
    \/ fetchDocumentsOk
    \/ fetchDocumentsFailed
    \/ \E folder \in Range(documents) : navigateToFolder(folder)
    \/ \E index \in -1..DocumentCap : navigateToBreadcrumb(index)
    \/ \E value \in SearchInputs : handleSearchChange(value)

Spec == Init /\ [][Next]_vars

\* ---------------------------------------------------------- type invariant

TypeOK ==
    /\ connected \in BOOLEAN
    /\ listing \in Listings
    /\ Len(documents) <= Len(listing)
    /\ loading \in BOOLEAN
    /\ fetchDocumentsError \in BOOLEAN
    /\ isTruncated \in BOOLEAN
    /\ syncStatus \in KnowledgeStatus \cup {NoJob}
    /\ syncError \in {NoError, "error"}
    /\ received \in 0..DocumentCap
    /\ requests \in 0..MaxToggles
    /\ Len(inflight) <= MaxInflight
    /\ isSubscribing \in BOOLEAN
    /\ toast \in BOOLEAN
    /\ currentFolderId \in {NoParent} \cup Ids(listing)
    /\ searchQuery \in SearchInputs

\* ------------------------------------------------ the projector on any tree

\* Ids and titles of the nodes of a drawn tree, by position.
ForestIds == << "n1", "n2", "n3", "n4", "n5" >>

ForestTitles == << << "F", "b" >>, << "g" >>, << "B" >>, << "a" >>, << "B", "d" >> >>

\* Following parent links from node k ends at the root within fuel steps.
RECURSIVE ReachesRoot(_, _, _)
ReachesRoot(parent, k, fuel) ==
    IF k = 0 THEN TRUE
    ELSE IF fuel = 0 THEN FALSE
    ELSE ReachesRoot(parent, parent[k], fuel - 1)

\* The forest invariant on n nodes: every parent is another node that can
\* have children, and no chain of parents closes on itself.
IsForest(n, parent, container) ==
    \A k \in 1..n :
        /\ parent[k] # k
        /\ parent[k] # 0 => container[parent[k]]
        /\ ReachesRoot(parent, k, n)

\* Every store of at most MaxNodes nodes that satisfies the forest invariant,
\* parents before or after their children.
Forests ==
    UNION {
        {[k \in 1..n |->
             Node(ForestIds[k],
                  IF pc[1][k] = 0 THEN NoParent ELSE ForestIds[pc[1][k]],
                  ForestTitles[k],
                  pc[2][k])] :
            pc \in {qc \in [1..n -> 0..n] \X [1..n -> BOOLEAN] :
                       IsForest(n, qc[1], qc[2])}} :
        n \in 0..MaxNodes}

\* The picker opened on a connection whose sync has completed with any such
\* tree in the store.
ForestInit ==
    /\ connected = TRUE
    /\ listing \in Forests
    /\ documents = listing
    /\ loading = FALSE
    /\ fetchDocumentsError = FALSE
    /\ isTruncated = FALSE
    /\ syncStatus = "completed"
    /\ syncError = NoError
    /\ received = Len(listing)
    /\ inflight = << >>
    /\ isSubscribing = FALSE
    /\ requests = 0
    /\ toast = FALSE
    /\ currentFolderId = NoParent
    /\ searchQuery = << >>

\* Browsing, searching and one toggle with its response.
ForestNext ==
    \/ \E folder \in Range(documents) : navigateToFolder(folder)
    \/ \E index \in -1..MaxNodes : navigateToBreadcrumb(index)
    \/ \E value \in SearchInputs : handleSearchChange(value)
    \/ \E document \in Range(documents) : requests = 0 /\ subscribeDocument(document)
    \/ \E i \in 1..MaxInflight : subscribeResponseOk(i)
    \/ \E i \in 1..MaxInflight : subscribeFetchThrows(i)

ForestSpec == ForestInit /\ [][ForestNext]_vars

\* ------------------------------------------------------ claim definitions

\* Transitive closure of the child relation, by fixpoint over parentId.
RECURSIVE ChildClosure(_, _)
ChildClosure(docs, S) ==
    LET S2 == S \cup {docs[i].id : i \in {j \in 1..Len(docs) : docs[j].parentId \in S}}
    IN  IF S2 = S THEN S ELSE ChildClosure(docs, S2)

Descendants(docs, id) == ChildClosure(docs, {id}) \ {id}

\* {n} with all transitive descendants for a container, {n} for a leaf.
AffectedSet(docs, n) ==
    IF n.canHaveChildren THEN {n.id} \cup Descendants(docs, n.id) ELSE {n.id}

\* Ids whose isSubscribed differs between two stores.
FlagChanged(before, after) ==
    {id \in Ids(before) \cup Ids(after) : flagOf(before, id) # flagOf(after, id)}

\* The store a request would leave if nothing else had touched it.
OptimisticResult(req) ==
    [i \in 1..Len(req.issuedFrom) |->
        IF req.issuedFrom[i].id \in Range(req.documentIds)
        THEN [req.issuedFrom[i] EXCEPT !.isSubscribed = req.isSubscribed]
        ELSE req.issuedFrom[i]]

\* A failure branch of request i is taken in this step.
ToggleFails(i) == subscribeResponseNotOk(i) \/ subscribeFetchThrows(i)

\* Any branch of the response of request i is taken in this step.
ToggleResolves(i) == subscribeResponseOk(i) \/ ToggleFails(i)

\* C1 (as stated): after the optimistic apply of a toggle of n, the set of
\* nodes whose isSubscribed differs from its pre-toggle value is exactly
\* {n} with all transitive descendants of n (a container), or {n} (a leaf).
C1_ChangedSetIsClosure ==
    [][\A n \in Range(documents) :
          subscribeDocument(n) =>
              FlagChanged(documents, documents') = AffectedSet(documents, n)]_vars

\* C1 (amended): after the optimistic apply of a toggle of n, every node of
\* {n} with its transitive descendants (just n for a leaf) holds the negation
\* of n's pre-toggle isSubscribed and every other node is as it was; so the
\* nodes whose value changed are n and those descendants that did not hold
\* the new value already.
C1_ClosureSetToNewState ==
    [][\A n \in Range(documents) :
          subscribeDocument(n) =>
              /\ Len(documents') = Len(documents)
              /\ \A i \in 1..Len(documents) :
                    documents'[i] =
                        IF documents[i].id \in AffectedSet(documents, n)
                        THEN [documents[i] EXCEPT !.isSubscribed = ~n.isSubscribed]
                        ELSE documents[i]
              /\ n.id \in FlagChanged(documents, documents')
              /\ FlagChanged(documents, documents') \subseteq AffectedSet(documents, n)]_vars

\* A folder toggle over a grandchild has just been applied, one of whose
\* descendants held the new value already.
C1_Witness ==
    \E i \in 1..Len(inflight) :
        /\ Len(inflight[i].documentIds) >= 3
        /\ documents = OptimisticResult(inflight[i])
        /\ \E id \in Range(inflight[i].documentIds) :
              flagOf(inflight[i].issuedFrom, id) = inflight[i].isSubscribed

\* C2: whenever the persistence request of a toggle fails (non-OK response
\* or thrown transport error), the store after the rollback equals the store
\* as it was immediately before that toggle was issued.
C2_RollbackExact ==
    [][\A i \in 1..Len(inflight) :
          ToggleFails(i) => documents' = inflight[i].issuedFrom]_vars

\* A thrown failure has just been rolled back while a later toggle is still
\* in flight.
C2_Witness ==
    /\ toast
    /\ Len(documents) > 0
    /\ Len(inflight) > 0

\* The requests at k and k+1 are two toggles of the same node in immediate
\* succession, and the store shows the second one's optimistic apply.
DoubleToggle(k) ==
    /\ k + 1 <= Len(inflight)
    /\ inflight[k].documentIds[1] = inflight[k + 1].documentIds[1]
    /\ inflight[k + 1].issuedFrom = OptimisticResult(inflight[k])
    /\ documents = OptimisticResult(inflight[k + 1])

\* C3 (as stated): toggling n twice in immediate succession returns every
\* node of {n} with its descendants to the isSubscribed value it had before
\* the first toggle.
C3_RetoggleRestoresAll ==
    \A k \in 1..Len(inflight) :
        DoubleToggle(k) =>
            \A id \in Range(inflight[k].documentIds) :
                flagOf(documents, id) = flagOf(inflight[k].issuedFrom, id)

\* C3 (amended): toggling n twice in immediate succession returns n to the
\* isSubscribed value it had before the first toggle and leaves every node
\* of {n} with its descendants at that value of n; a successful response
\* leaves the store as it is.
C3_RetoggleRestoresToggled ==
    /\ [](\A k \in 1..Len(inflight) :
            DoubleToggle(k) =>
                \A id \in Range(inflight[k].documentIds) :
                    flagOf(documents, id) =
                        flagOf(inflight[k].issuedFrom, inflight[k].documentIds[1]))
    /\ [][\A i \in 1..Len(inflight) :
            subscribeResponseOk(i) => documents' = documents]_vars

\* A folder has been toggled twice in succession from a store in which one
\* of its descendants differed from it.
C3_Witness ==
    \E k \in 1..Len(inflight) :
        /\ DoubleToggle(k)
        /\ \E id \in Range(inflight[k].documentIds) :
              flagOf(inflight[k].issuedFrom, id) #
                  flagOf(inflight[k].issuedFrom, inflight[k].documentIds[1])

\* C4: when a toggle fails, its rollback changes isSubscribed only on nodes
\* of that toggle's own affected set; the nodes of a disjoint toggle applied
\* in the meantime keep their state.
C4_RollbackConfined ==
    [][\A i \in 1..Len(inflight) :
          ToggleFails(i) =>
              FlagChanged(documents, documents') \subseteq Range(inflight[i].documentIds)]_vars

\* C5: the response of a toggle that was in flight when resync wiped the
\* tree does not mutate the store unless the toggle's affected ids still
\* exist in it.
C5_ResponseGuardedAfterResync ==
    [][\A i \in 1..Len(inflight) :
          ToggleResolves(i) =>
              \/ Range(inflight[i].documentIds) \subseteq Ids(documents)
              \/ documents' = documents]_vars

\* C6: both failure kinds of a toggle restore the snapshot and emit a
\* user-facing error notification.
C6_FailureNotifies ==
    [][\A i \in 1..Len(inflight) :
          ToggleFails(i) =>
              /\ documents' = inflight[i].issuedFrom
              /\ toast']_vars

\* C7: resync on a connection with existing nodes and a failed job yields,
\* in the state right after it, no nodes, status in_progress, no syncError
\* and isTruncated = false.
C7_ResyncReset ==
    [][(reSync /\ connected /\ Len(documents) > 0 /\ syncStatus = "failed") =>
          /\ documents' = << >>
          /\ syncStatus' = "in_progress"
          /\ syncError' = NoError
          /\ isTruncated' = FALSE]_vars

\* A failed job with nodes in the store and a resync control on screen.
C7_Witness ==
    /\ connected
    /\ syncStatus = "failed"
    /\ syncError # NoError
    /\ Len(documents) > 0
    /\ resyncOffered

\* C8: a job whose listing hit the cap is completed and truncated, never
\* failed; isTruncated never goes with status failed.
C8_TruncationIsNotFailure ==
    /\ (received = DocumentCap /\ Len(listing) > DocumentCap) =>
          (syncStatus = "completed" /\ isTruncated /\ syncError = NoError)
    /\ isTruncated => syncStatus = "completed"

\* A listing longer than the cap has been cut off and the notice is shown.
C8_Witness ==
    /\ Len(listing) > DocumentCap
    /\ received = DocumentCap
    /\ truncationNoticeShown
    /\ Len(documents) = DocumentCap

\* C9: in every state where the job is failed with a syncError (and no
\* listing fetch is pending or failed), the view displays the failure
\* reason, whether the store holds documents or not.
C9_FailureReasonShown ==
    (syncStatus = "failed" /\ syncError # NoError /\ ~loading /\ ~fetchDocumentsError)
        => renderContent = "syncError"

\* C10: in every state where the job is in_progress, a resync action is
\* offered to the user.
C10_ResyncWhileSyncing ==
    isSyncing => resyncOffered

\* C11: once the job is failed its status stays failed until the user
\* invokes resync; the only transition out of failed is to in_progress and
\* the only action taking it is reSync.
C11_FailedUntilResync ==
    [][(syncStatus = "failed" /\ syncStatus' # "failed") =>
          (reSync /\ syncStatus' = "in_progress")]_vars

\* The job is failed while a listing fetch and a toggle are pending.
C11_Witness ==
    /\ syncStatus = "failed"
    /\ loading
    /\ Len(inflight) > 0

\* C12: when the persistence request of a toggle goes in flight, the store
\* already holds isSubscribed = newState on every affected node, so the
\* toggled node no longer shows its pre-toggle value.
C12_ApplyBeforeRequest ==
    [][Len(inflight') > Len(inflight) =>
          LET req == inflight'[Len(inflight')]
          IN  /\ documents' = OptimisticResult(req)
              /\ \A id \in Range(req.documentIds) :
                    flagOf(documents', id) = req.isSubscribed
              /\ flagOf(documents', req.documentIds[1]) #
                    flagOf(req.issuedFrom, req.documentIds[1])]_vars

\* One request is in flight and the store shows its optimistic apply.
C12_Witness ==
    /\ Len(inflight) = 1
    /\ documents = OptimisticResult(inflight[1])
    /\ documents # inflight[1].issuedFrom

\* The crumbs are the chain of ancestors from the root to the cursor.
IsAncestorChain(docs, crumbs, cursor) ==
    LET ParentOf(id) == (CHOOSE d \in Range(docs) : d.id = id).parentId
    IN  /\ Len(crumbs) >= 1
        /\ crumbs[Len(crumbs)].id = cursor
        /\ ParentOf(crumbs[1].id) = NoParent
        /\ \A k \in 1..(Len(crumbs) - 1) : ParentOf(crumbs[k + 1].id) = crumbs[k].id
        /\ \A k \in 1..Len(crumbs) :
              \E d \in Range(docs) : d.id = crumbs[k].id /\ d.title = crumbs[k].title

\* C13: with no search string, the breadcrumbs are the chain of ancestors
\* from the root to the cursor (empty at the root); entering a listed folder
\* appends its crumb; navigateToBreadcrumb(i) moves the cursor to crumb i and
\* leaves exactly the first i+1 crumbs, and index -1 resets to the root with
\* no crumbs.
C13_BreadcrumbCorrectness ==
    /\ [](searchQuery = << >> =>
            /\ currentFolderId = NoParent => breadcrumbs = << >>
            /\ currentFolderId \in Ids(documents) =>
                  IsAncestorChain(documents, breadcrumbs, currentFolderId))
    /\ [][/\ \A index \in -1..DocumentCap :
                navigateToBreadcrumb(index) =>
                    /\ breadcrumbs' = SubSeq(breadcrumbs, 1, index + 1)
                    /\ currentFolderId' =
                          IF index = -1 THEN NoParent ELSE breadcrumbs[index + 1].id
          /\ \A folder \in Range(documents) :
                (navigateToFolder(folder) /\ searchQuery = << >>) =>
                    breadcrumbs' =
                        Append(breadcrumbs, [id |-> folder.id, title |-> folder.title])]_vars

\* The cursor has been moved two folders deep and both crumbs are shown.
C13_Witness ==
    /\ searchQuery = << >>
    /\ Len(breadcrumbs) = 2
    /\ currentFolderId = breadcrumbs[2].id

\* Two characters are equal up to case.
SameLetter(c, d) ==
    \/ c = d
    \/ << c, d >> \in {<< "A", "a" >>, << "a", "A" >>, << "B", "b" >>,
                      << "b", "B" >>, << "F", "f" >>, << "f", "F" >>}

\* sub occurs in title, letters compared up to case.
TitleContains(title, sub) ==
    \E k \in 0..(Len(title) - Len(sub)) :
        \A j \in 1..Len(sub) : SameLetter(title[k + j], sub[j])

\* C14: with a search string, the listed folders and files are together the
\* nodes of the whole tree whose title contains it case-insensitively,
\* whatever the cursor, and there are no breadcrumbs; without one, they are
\* the nodes whose parentId is the cursor.
C14_SearchIsolation ==
    LET listed == Range(currentFolders) \cup Range(currentFiles)
    IN  /\ \A d \in Range(currentFolders) : d.canHaveChildren
        /\ \A d \in Range(currentFiles) : ~d.canHaveChildren
        /\ searchQuery # << >> =>
              /\ listed = {d \in Range(documents) : TitleContains(d.title, searchQuery)}
              /\ breadcrumbs = << >>
        /\ searchQuery = << >> =>
              listed = {d \in Range(documents) : d.parentId = currentFolderId}

\* A search is shown while the cursor is inside a folder, and it lists a
\* node outside that folder whose title matches only up to case.
C14_Witness ==
    /\ searchQuery # << >>
    /\ currentFolderId # NoParent
    /\ \E d \in Range(currentFolders) \cup Range(currentFiles) :
          /\ d.parentId # currentFolderId
          /\ ~includes(d.title, searchQuery)

C16_OneRequestPerToggle ==
    [][/\ \A n \in Range(documents) :
            subscribeDocument(n) =>
                /\ requests' = requests + 1
                /\ Len(inflight') = Len(inflight) + 1
                /\ SubSeq(inflight', 1, Len(inflight)) = inflight
                /\ LET req == inflight'[Len(inflight')]
                   IN  /\ req.documentIds[1] = n.id
                       /\ Range(req.documentIds) = AffectedSet(documents, n)
                       /\ Len(req.documentIds) = Cardinality(AffectedSet(documents, n))
                       /\ req.isSubscribed = ~n.isSubscribed
       /\ \A i \in 1..Len(inflight) :
            ToggleResolves(i) =>
                /\ requests' = requests
                /\ Len(inflight') = Len(inflight) - 1]_vars

\* Two requests have been issued, one has resolved, and the one in flight
\* covers a folder with its descendants.
C16_Witness ==
    /\ requests = 2
    /\ Len(inflight) = 1
    /\ Len(inflight[1].documentIds) >= 2

\* The store without its subscription flags.
Unflagged(docs) == [i \in 1..Len(docs) |-> [docs[i] EXCEPT !.isSubscribed = FALSE]]

\* C17: the optimistic apply, the success and the rollback of a lone toggle
\* change nothing but isSubscribed: the nodes, their order and their other
\* fields, the cursor and the search string stay as they are.
C17_ToggleFrame ==
    [][(\/ \E n \in Range(documents) : subscribeDocument(n)
        \/ \E i \in 1..Len(inflight) : subscribeResponseOk(i)
        \/ Len(inflight) = 1 /\ ToggleFails(1)) =>
          /\ Unflagged(documents') = Unflagged(documents)
          /\ UNCHANGED navVars]_vars

\* C18: on a store that satisfies the forest invariant, getDocumentsInFolder
\* of a node returns every transitive descendant of it exactly once and never
\* the node itself, so the id list of a toggle has no duplicates.
C18_FolderContents ==
    \A f \in Range(documents) :
        LET inFolder == getDocumentsInFolder(documents, f.id)
            ids == documentsToUpdate(documents, f)
        IN  /\ Range(IdsOf(inFolder)) = Descendants(documents, f.id)
            /\ Len(inFolder) = Cardinality(Descendants(documents, f.id))
            /\ Range(inFolder) \subseteq Range(documents)
            /\ f.id \notin Range(IdsOf(inFolder))
            /\ Len(ids) = Cardinality(Range(ids))
            /\ ~f.canHaveChildren => inFolder = << >>

\* A folder listed after its descendants, which lie two levels deep, has
\* been toggled.
C18_Witness ==
    \E f \in Range(documents) :
        /\ Cardinality({d \in Range(documents) : d.parentId = f.id}) = 1
        /\ Cardinality(Descendants(documents, f.id)) = 2
        /\ documents[Len(documents)].id = f.id
        /\ Len(inflight) = 1
        /\ inflight[1].documentIds[1] = f.id
        /\ Len(inflight[1].documentIds) = 3

====
